---- MODULE Spec2Model ----
(***************************************************************************)
(* Model of importer.py: timestamp normalisation of load and weather      *)
(* files, aggregation per family, the inner join on the canonical         *)
(* timestamp, and the replacement of the 'results' table.                 *)
(*                                                                         *)
(* Strings with structure are modelled by their fields:                   *)
(*   'month/day/year'           <<m, d, y>>                                *)
(*   'hour:minute'              <<h, mi>>                                  *)
(*   'YYYY-MM-DD HH:MM:SS'      <<y, m, d, h, mi, s>>                      *)
(* A call that may raise returns [ok |-> FALSE, ...].                     *)
(***************************************************************************)
EXTENDS Integers, Sequences, FiniteSets, TLC

VARIABLES
    normIn,      \* argument handed to a timestamp normaliser
    normOut,     \* what the normaliser returned
    normOp,      \* which normaliser ran: "idle", "convert", "round"
    loadDir,     \* entries of ./system_load_by_region
    weatherDir,  \* entries of ./weather_data
    db,          \* the 'results' table of the SQLite file at db_path
    pc,          \* position of main()
    run,         \* number of the current invocation of importer.py
    files,       \* local 'files' of the aggregate function in progress
    loadDf,      \* value returned by compute_aggregate_load_data
    weatherDf,   \* value returned by compute_aggregate_weather_data
    total,       \* local 'total' of main
    err,         \* exception that ended the run, if any
    log,         \* history: calls made by the current run, in order
    dbAtStart,   \* history: db when the current run started
    prev         \* history: outcome of the previous run

normVars == <<normIn, normOut, normOp>>
pipeVars == <<loadDir, weatherDir, db, pc, run, files, loadDf, weatherDf,
              total, err, log, dbAtStart, prev>>
vars == <<normIn, normOut, normOp, loadDir, weatherDir, db, pc, run, files,
          loadDf, weatherDf, total, err, log, dbAtStart, prev>>

----------------------------------------------------------------------------
(* datetime: calendar arithmetic used by strptime / replace                *)

IsLeap(y) == (y % 4 = 0 /\ y % 100 # 0) \/ y % 400 = 0

DaysInMonth(y, m) ==
    IF m = 2 THEN (IF IsLeap(y) THEN 29 ELSE 28)
    ELSE IF m \in {4, 6, 9, 11} THEN 30 ELSE 31

ValidDate(y, m, d) ==
    /\ y \in 1..9999
    /\ m \in 1..12
    /\ d >= 1
    /\ d <= DaysInMonth(y, m)

ValidTime(h, mi, s) == h \in 0..23 /\ mi \in 0..59 /\ s \in 0..59

Raise == [ok |-> FALSE, val |-> <<>>]
Return(v) == [ok |-> TRUE, val |-> v]

----------------------------------------------------------------------------
(* convert_date_time_tuple_into_date_time_object((date_string, time_string)) *)

HourEndingShift_Mut(h) == h

HourEndingShift(h) == h - 1

convert_date_time_tuple_Mut(date_time_tuple) ==
    LET date_string == date_time_tuple[1]
        time_string == date_time_tuple[2]
        m == date_string[1]
        d == date_string[2]
        y == date_string[3]
    IN  IF ~ValidDate(y, m, d) THEN Raise
        ELSE LET t == IF time_string = <<24, 0>> THEN <<23, 0>> ELSE time_string
             IN  IF ~ValidTime(t[1], t[2], 0) THEN Raise
                 ELSE IF t[1] - 1 \notin 0..23 THEN Raise
                 ELSE Return(<<y, m, d, t[1] - 1, 0, 0>>)

convert_date_time_tuple_into_date_time_object(date_time_tuple) ==
    LET date_string == date_time_tuple[1]
        time_string == date_time_tuple[2]
        m == date_string[1]
        d == date_string[2]
        y == date_string[3]
    IN  IF ~ValidDate(y, m, d) THEN Raise              \* strptime "%m/%d/%Y"
        ELSE IF time_string = <<24, 0>>
             THEN Return(<<y, m, d, 23, 0, 0>>)         \* "23:00", unshifted
        ELSE IF ~ValidTime(time_string[1], time_string[2], 0)
             THEN Raise                                \* strptime "%H:%M"
        ELSE LET hour == HourEndingShift(time_string[1])
             IN  IF hour \notin 0..23 THEN Raise       \* time.replace(hour=-1)
                 ELSE Return(<<y, m, d, hour, 0, 0>>)

----------------------------------------------------------------------------
(* round_utc_hour_up(dateString)                                           *)

round_utc_hour_up(dateString) ==
    LET y == dateString[1]
        m == dateString[2]
        d == dateString[3]
        hour == dateString[4]
    IN  IF ~(ValidDate(y, m, d) /\ ValidTime(hour, dateString[5], dateString[6]))
        THEN Raise                                     \* strptime
        ELSE LET newHour == (hour + 1) % 24
             IN  Return(<<y, m, d, newHour, 0, 0>>)    \* replace(hour=), strftime

----------------------------------------------------------------------------
(* pandas: a DataFrame is its column set and its rows in index order; a    *)
(* row is a function from column names to values.                          *)

NaN == -1

DataFrame(cols, rows) == [cols |-> cols, rows |-> rows]

EmptyFrame == DataFrame({}, <<>>)

\* DataFrame.drop(columns, axis=1) applied to one row
DropColumns(row, dropped) == [c \in (DOMAIN row) \ dropped |-> row[c]]

\* lexicographic order of 'YYYY-MM-DD HH:MM:SS' strings
RECURSIVE TsLessFrom(_, _, _)
TsLessFrom(a, b, i) ==
    IF i > Len(a) THEN FALSE
    ELSE IF a[i] # b[i] THEN a[i] < b[i]
    ELSE TsLessFrom(a, b, i + 1)

TsLess(a, b) == TsLessFrom(a, b, 1)

Dates(df) == {df.rows[i]["Date"] : i \in DOMAIN df.rows}

RowsAt(df, t) == SelectSeq(df.rows, LAMBDA r : r["Date"] = t)

RECURSIVE SortedKeys(_)
SortedKeys(S) ==
    IF S = {} THEN <<>>
    ELSE LET least == CHOOSE t \in S : \A u \in S \ {t} : TsLess(t, u)
         IN  <<least>> \o SortedKeys(S \ {least})

\* pd.concat(dfs): rows of every frame in list order; an empty list raises
RECURSIVE ConcatRows(_)
ConcatRows(dfs) ==
    IF dfs = <<>> THEN <<>> ELSE Head(dfs).rows \o ConcatRows(Tail(dfs))

concat(dfs) ==
    IF dfs = <<>> THEN Raise
    ELSE Return(DataFrame(UNION {dfs[i].cols : i \in DOMAIN dfs}, ConcatRows(dfs)))

\* one left row paired with every row of a sequence of right rows
PairWith(l, rs) == [k \in 1..Len(rs) |-> l @@ rs[k]]

RECURSIVE PairAll(_, _)
PairAll(ls, rs) ==
    IF ls = <<>> THEN <<>> ELSE PairWith(Head(ls), rs) \o PairAll(Tail(ls), rs)

Blank(cols) == [c \in cols \ {"Date"} |-> NaN]

\* pd.merge(df1, df2, on="Date"): how="inner", order of the left keys
RECURSIVE InnerRows(_, _)
InnerRows(ls, df2) ==
    IF ls = <<>> THEN <<>>
    ELSE PairWith(Head(ls), RowsAt(df2, Head(ls)["Date"])) \o InnerRows(Tail(ls), df2)

merge_inner_Mut(df1, df2) ==
    DataFrame(df1.cols \cup df2.cols,
              [k \in 1..Len(df1.rows) |->
                  IF RowsAt(df2, df1.rows[k]["Date"]) = <<>>
                  THEN df1.rows[k] @@ Blank(df2.cols)
                  ELSE df1.rows[k] @@ Head(RowsAt(df2, df1.rows[k]["Date"]))])

merge_inner(df1, df2) ==
    DataFrame(df1.cols \cup df2.cols, InnerRows(df1.rows, df2))

\* pd.merge(df1, df2, on="Date", how="outer"): union of keys, sorted
RECURSIVE OuterRows(_, _, _)
OuterRows(keys, df1, df2) ==
    IF keys = <<>> THEN <<>>
    ELSE LET t  == Head(keys)
             ls == RowsAt(df1, t)
             rs == RowsAt(df2, t)
             here == IF rs = <<>> THEN [k \in 1..Len(ls) |-> ls[k] @@ Blank(df2.cols)]
                     ELSE IF ls = <<>> THEN [k \in 1..Len(rs) |-> rs[k] @@ Blank(df1.cols)]
                     ELSE PairAll(ls, rs)
         IN  here \o OuterRows(Tail(keys), df1, df2)

merge_outer(df1, df2) ==
    DataFrame(df1.cols \cup df2.cols,
              OuterRows(SortedKeys(Dates(df1) \cup Dates(df2)), df1, df2))

\* DataFrame.sort_values("Date"): insertion of each row after its equals
RECURSIVE InsertSorted(_, _)
InsertSorted(r, sorted) ==
    IF sorted = <<>> THEN <<r>>
    ELSE IF TsLess(r["Date"], Head(sorted)["Date"]) THEN <<r>> \o sorted
    ELSE <<Head(sorted)>> \o InsertSorted(r, Tail(sorted))

RECURSIVE SortRows(_)
SortRows(rows) ==
    IF rows = <<>> THEN <<>>
    ELSE InsertSorted(rows[Len(rows)], SortRows(SubSeq(rows, 1, Len(rows) - 1)))

sort_values(df) == DataFrame(df.cols, SortRows(df.rows))

----------------------------------------------------------------------------
(* The source files.  A file name is its '_'-separated segments and its    *)
(* extension; a csv file's content is its rows, an archive's its members.  *)

MaxRuns == 2

LoadDirName == "system_load_by_region"
WeatherDirName == "weather_data"

Name(code, tag, ext) == [code |-> code, tag |-> tag, ext |-> ext]

LA == Name("cdr", "a", "csv")
LB == Name("cdr", "b", "csv")
LC == Name("cdr", "c", "csv")
LZ == Name("cdr", "all", "zip")
WD == Name("KDAL", "a", "csv")
WE == Name("KDAL", "b", "csv")
WH == Name("KHOU", "a", "csv")
WS == Name("KSAT", "a", "csv")
WX == Name("KAUS", "a", "csv")
WZ == Name("wx", "all", "zip")

LoadOrder == <<LA, LB, LC, LZ>>
WeatherOrder == <<WD, WE, WH, WS, WX, WZ>>

ArchiveMembers(z) ==
    IF z = LZ THEN {LA, LB} ELSE IF z = WZ THEN {WD, WH, WS} ELSE {}

LoadCsvRow(day, hourEnding, east) ==
    [OperDay |-> day, HourEnding |-> hourEnding, EAST |-> east,
     TOTAL |-> east, DSTFlag |-> 0]

WeatherCsvRow(utc, temp) == [DateUTC |-> utc, TemperatureF |-> temp, Humidity |-> 40]

\* LA and LB overlap at 01/01/2014 24:00; LC carries the label 00:00.
\* WD has two observations inside one hour; WH has one in the last hour of a day.
read_csv(name) ==
    CASE name = LA -> <<LoadCsvRow(<<1, 1, 2014>>, <<1, 0>>, 10),
                        LoadCsvRow(<<1, 1, 2014>>, <<24, 0>>, 11)>>
      [] name = LB -> <<LoadCsvRow(<<1, 1, 2014>>, <<24, 0>>, 12),
                        LoadCsvRow(<<1, 2, 2014>>, <<1, 0>>, 13)>>
      [] name = LC -> <<LoadCsvRow(<<1, 1, 2014>>, <<0, 0>>, 14)>>
      [] name = WD -> <<WeatherCsvRow(<<2014, 1, 1, 22, 10, 0>>, 50),
                        WeatherCsvRow(<<2014, 1, 1, 22, 40, 0>>, 51)>>
      [] name = WE -> <<WeatherCsvRow(<<2014, 1, 1, 22, 50, 1>>, 52)>>
      [] name = WH -> <<WeatherCsvRow(<<2014, 1, 1, 22, 20, 0>>, 60),
                        WeatherCsvRow(<<2014, 1, 1, 23, 30, 0>>, 61)>>
      [] name = WS -> <<WeatherCsvRow(<<2014, 1, 1, 22, 30, 0>>, 70)>>
      [] name = WX -> <<WeatherCsvRow(<<2014, 1, 1, 22, 0, 0>>, 80)>>
      [] OTHER -> <<>>

\* os.listdir(directory): the entries, in the file system's order
listdir(dir, order) == SelectSeq(order, LAMBDA e : e \in dir)

get_all_csv_files_in_directory(dir, order) ==
    SelectSeq(listdir(dir, order), LAMBDA x : x.ext = "csv")

\* os.system("unzip '<dir>/*.zip' -d <dir>")
unzip(dir) == dir \cup UNION {ArchiveMembers(z) : z \in {e \in dir : e.ext = "zip"}}

\* "<code>" in file_name
Contains(file_name, code) == file_name.code = code \/ file_name.tag = code

\* city + "_TemperatureF"
TemperatureColumn(city) ==
    CASE city = "KDAL" -> "KDAL_TemperatureF"
      [] city = "KHOU" -> "KHOU_TemperatureF"
      [] city = "KSAT" -> "KSAT_TemperatureF"
      [] OTHER -> "other_TemperatureF"

AllOk(results) == \A i \in DOMAIN results : results[i].ok
Vals(results) == [i \in DOMAIN results |-> results[i].val]

----------------------------------------------------------------------------
(* The readers                                                             *)

combine_date_and_hour_columns(rows) ==
    LET date_times == [i \in DOMAIN rows |->
            convert_date_time_tuple_into_date_time_object(
                <<rows[i]["Date"], rows[i]["HourEnding"]>>)]
    IN  IF ~AllOk(date_times) THEN Raise
        ELSE Return([i \in DOMAIN rows |->
                 DropColumns(("Date" :> date_times[i].val) @@ rows[i], {"HourEnding"})])

read_load_data_from_csv(name) ==
    LET raw == read_csv(name)
        original == [i \in DOMAIN raw |->
            ("Date" :> raw[i]["OperDay"]) @@
            DropColumns(raw[i], {"OperDay", "TOTAL", "DSTFlag"})]
        combined == combine_date_and_hour_columns(original)
    IN  IF ~combined.ok THEN Raise
        ELSE Return(DataFrame({"Date", "EAST"}, combined.val))

read_weather_data_from_csv(name) ==
    LET raw == read_csv(name)
        dates == [i \in DOMAIN raw |-> round_utc_hour_up(raw[i]["DateUTC"])]
        column == TemperatureColumn(name.code)
    IN  IF ~AllOk(dates) THEN Raise
        ELSE Return(DataFrame({"Date", column},
                 [i \in DOMAIN raw |->
                     ("Date" :> dates[i].val) @@ (column :> raw[i]["TemperatureF"])]))

----------------------------------------------------------------------------
(* The aggregate functions, after their files have been found              *)

ReadLoadFiles(fs) == [i \in DOMAIN fs |-> read_load_data_from_csv(fs[i])]

ReadWeatherFiles(fs) == [i \in DOMAIN fs |-> read_weather_data_from_csv(fs[i])]

\* importer.py lines 153-160
AggregateLoad(fs) ==
    LET dfs == ReadLoadFiles(fs)
    IN  IF ~AllOk(dfs) THEN Raise ELSE concat(Vals(dfs))

\* importer.py lines 196-218
AggregateWeather(fs) ==
    LET dallas_files == SelectSeq(fs, LAMBDA file_name : Contains(file_name, "KDAL"))
        houston_files == SelectSeq(fs, LAMBDA file_name : Contains(file_name, "KHOU"))
        san_antonio_files == SelectSeq(fs, LAMBDA file_name : Contains(file_name, "KSAT"))
        dallas_dfs == ReadWeatherFiles(dallas_files)
        houston_dfs == ReadWeatherFiles(houston_files)
        san_antonio_dfs == ReadWeatherFiles(san_antonio_files)
    IN  IF ~(AllOk(dallas_dfs) /\ AllOk(houston_dfs) /\ AllOk(san_antonio_dfs))
        THEN Raise
        ELSE LET dallas_df == concat(Vals(dallas_dfs))
                 houston_df == concat(Vals(houston_dfs))
                 san_antonio_df == concat(Vals(san_antonio_dfs))
             IN  IF ~(dallas_df.ok /\ houston_df.ok /\ san_antonio_df.ok)
                 THEN Raise
                 ELSE Return(sort_values(
                          merge_outer(merge_outer(dallas_df.val, houston_df.val),
                                      san_antonio_df.val)))

----------------------------------------------------------------------------
(* main(), one step per call it makes                                      *)

NoTable == [exists |-> FALSE, cols |-> {}, rows |-> <<>>]
Table(cols, rows) == [exists |-> TRUE, cols |-> cols, rows |-> rows]

\* a 'results' table left by an earlier import of other data
StaleTable ==
    Table({"Date", "EAST"}, <<[Date |-> <<2013, 6, 1, 0, 0, 0>>, EAST |-> 99]>>)

NoError == [type |-> "none", what |-> "none", dir |-> "none"]
ValueError(what, dir) == [type |-> "ValueError", what |-> what, dir |-> dir]
OperationalError == [type |-> "OperationalError", what |-> "sqlite", dir |-> "none"]

Event(ev, dir, n) == [ev |-> ev, dir |-> dir, n |-> n]

NoRun == [status |-> "none", db |-> NoTable]

NeedsFallback_Mut(fs) == Len(fs) <= 1

\* if len(files) == 0
NeedsFallback(fs) == Len(fs) = 0

PipeInit ==
    /\ loadDir \in SUBSET {LA, LB, LC, LZ}
    /\ weatherDir \in SUBSET {WD, WE, WH, WS, WX, WZ}
    /\ db \in {NoTable, StaleTable}
    /\ pc = "start"
    /\ run = 1
    /\ files = <<>>
    /\ loadDf = EmptyFrame
    /\ weatherDf = EmptyFrame
    /\ total = EmptyFrame
    /\ err = NoError
    /\ log = <<>>
    /\ dbAtStart = db
    /\ prev = NoRun

LoadScan ==
    /\ pc = "start"
    /\ files' = get_all_csv_files_in_directory(loadDir, LoadOrder)
    /\ log' = Append(log, Event("scan", LoadDirName, Len(files')))
    /\ pc' = IF NeedsFallback(files') THEN "load_unzip" ELSE "load_read"
    /\ UNCHANGED <<loadDir, weatherDir, db, run, loadDf, weatherDf, total, err,
                   dbAtStart, prev>>
    /\ UNCHANGED normVars

LoadUnzip ==
    /\ pc = "load_unzip"
    /\ loadDir' = unzip(loadDir)
    /\ log' = Append(log, Event("unzip", LoadDirName, 0))
    /\ pc' = "load_rescan"
    /\ UNCHANGED <<weatherDir, db, run, files, loadDf, weatherDf, total, err,
                   dbAtStart, prev>>
    /\ UNCHANGED normVars

LoadRescan ==
    /\ pc = "load_rescan"
    /\ files' = get_all_csv_files_in_directory(loadDir, LoadOrder)
    /\ IF Len(files') = 0
       THEN /\ pc' = "failed"
            /\ err' = ValueError("missing", LoadDirName)
            /\ log' = log \o <<Event("scan", LoadDirName, 0),
                               Event("raise", LoadDirName, 0)>>
       ELSE /\ pc' = "load_read"
            /\ err' = err
            /\ log' = Append(log, Event("scan", LoadDirName, Len(files')))
    /\ UNCHANGED <<loadDir, weatherDir, db, run, loadDf, weatherDf, total,
                   dbAtStart, prev>>
    /\ UNCHANGED normVars

LoadRead ==
    /\ pc = "load_read"
    /\ LET aggregate_df == AggregateLoad(files)
       IN  IF aggregate_df.ok
           THEN /\ loadDf' = aggregate_df.val
                /\ pc' = "weather_scan"
                /\ err' = err
                /\ log' = Append(log, Event("read", LoadDirName, Len(files)))
           ELSE /\ loadDf' = loadDf
                /\ pc' = "failed"
                /\ err' = ValueError("parse", "none")
                /\ log' = log \o <<Event("read", LoadDirName, Len(files)),
                                   Event("raise", "none", 0)>>
    /\ UNCHANGED <<loadDir, weatherDir, db, run, files, weatherDf, total,
                   dbAtStart, prev>>
    /\ UNCHANGED normVars

WeatherScan ==
    /\ pc = "weather_scan"
    /\ files' = get_all_csv_files_in_directory(weatherDir, WeatherOrder)
    /\ log' = Append(log, Event("scan", WeatherDirName, Len(files')))
    /\ pc' = IF NeedsFallback(files') THEN "weather_unzip" ELSE "weather_read"
    /\ UNCHANGED <<loadDir, weatherDir, db, run, loadDf, weatherDf, total, err,
                   dbAtStart, prev>>
    /\ UNCHANGED normVars

WeatherUnzip ==
    /\ pc = "weather_unzip"
    /\ weatherDir' = unzip(weatherDir)
    /\ log' = Append(log, Event("unzip", WeatherDirName, 0))
    /\ pc' = "weather_rescan"
    /\ UNCHANGED <<loadDir, db, run, files, loadDf, weatherDf, total, err,
                   dbAtStart, prev>>
    /\ UNCHANGED normVars

WeatherRescan ==
    /\ pc = "weather_rescan"
    /\ files' = get_all_csv_files_in_directory(weatherDir, WeatherOrder)
    /\ IF Len(files') = 0
       THEN /\ pc' = "failed"
            /\ err' = ValueError("missing", WeatherDirName)
            /\ log' = log \o <<Event("scan", WeatherDirName, 0),
                               Event("raise", WeatherDirName, 0)>>
       ELSE /\ pc' = "weather_read"
            /\ err' = err
            /\ log' = Append(log, Event("scan", WeatherDirName, Len(files')))
    /\ UNCHANGED <<loadDir, weatherDir, db, run, loadDf, weatherDf, total,
                   dbAtStart, prev>>
    /\ UNCHANGED normVars

WeatherRead ==
    /\ pc = "weather_read"
    /\ LET aggregate_df == AggregateWeather(files)
       IN  IF aggregate_df.ok
           THEN /\ weatherDf' = aggregate_df.val
                /\ pc' = "join"
                /\ err' = err
                /\ log' = Append(log, Event("read", WeatherDirName, Len(files)))
           ELSE /\ weatherDf' = weatherDf
                /\ pc' = "failed"
                /\ err' = ValueError("concat", "none")
                /\ log' = log \o <<Event("read", WeatherDirName, Len(files)),
                                   Event("raise", "none", 0)>>
    /\ UNCHANGED <<loadDir, weatherDir, db, run, files, loadDf, total,
                   dbAtStart, prev>>
    /\ UNCHANGED normVars

\* get_total_data: pd.merge(load, weather, on="Date")
Join ==
    /\ pc = "join"
    /\ total' = merge_inner(loadDf, weatherDf)
    /\ log' = Append(log, Event("join", "none", Len(total'.rows)))
    /\ pc' = "write"
    /\ UNCHANGED <<loadDir, weatherDir, db, run, files, loadDf, weatherDf, err,
                   dbAtStart, prev>>
    /\ UNCHANGED normVars

\* DataFrame.to_sql("results", con, if_exists='replace'), index=True:
\* the old table is dropped and an empty one created, both committed ...
CreateTable_Mut(old, df) ==
    IF old.exists THEN old ELSE Table(df.cols \cup {"index"}, <<>>)

CreateTable(old, df) == Table(df.cols \cup {"index"}, <<>>)

\* ... then the rows are inserted in one transaction
InsertRows(tbl, df) ==
    Table(tbl.cols,
          tbl.rows \o [k \in 1..Len(df.rows) |-> ("index" :> (k - 1)) @@ df.rows[k]])

\* sqlite3.connect(db_path) raises: nothing was touched
WriteConnectFail ==
    /\ pc = "write"
    /\ pc' = "failed"
    /\ err' = OperationalError
    /\ log' = Append(log, Event("raise", "none", 0))
    /\ UNCHANGED <<loadDir, weatherDir, db, run, files, loadDf, weatherDf, total,
                   dbAtStart, prev>>
    /\ UNCHANGED normVars

WriteCreate ==
    /\ pc = "write"
    /\ db' = CreateTable(db, total)
    /\ log' = Append(log, Event("write", "none", Len(total.rows)))
    /\ pc' = "insert"
    /\ UNCHANGED <<loadDir, weatherDir, run, files, loadDf, weatherDf, total, err,
                   dbAtStart, prev>>
    /\ UNCHANGED normVars

WriteInsert ==
    /\ pc = "insert"
    /\ db' = InsertRows(db, total)
    /\ pc' = "done"
    /\ UNCHANGED <<loadDir, weatherDir, run, files, loadDf, weatherDf, total, err,
                   log, dbAtStart, prev>>
    /\ UNCHANGED normVars

\* the insert raises (disk full, locked database): its transaction is rolled
\* back, the committed drop and create are not
WriteInsertFail ==
    /\ pc = "insert"
    /\ pc' = "failed"
    /\ err' = OperationalError
    /\ log' = Append(log, Event("raise", "none", 0))
    /\ UNCHANGED <<loadDir, weatherDir, db, run, files, loadDf, weatherDf, total,
                   dbAtStart, prev>>
    /\ UNCHANGED normVars

\* python importer.py <db_path> is run again, the directories as they are
NextRun ==
    /\ pc \in {"done", "failed"}
    /\ run < MaxRuns
    /\ prev' = [status |-> pc, db |-> db]
    /\ run' = run + 1
    /\ pc' = "start"
    /\ files' = <<>>
    /\ loadDf' = EmptyFrame
    /\ weatherDf' = EmptyFrame
    /\ total' = EmptyFrame
    /\ err' = NoError
    /\ log' = <<>>
    /\ dbAtStart' = db
    /\ UNCHANGED <<loadDir, weatherDir, db>>
    /\ UNCHANGED normVars

NormIdle ==
    /\ normIn = [kind |-> "none", date |-> <<1, 1, 2014>>, time |-> <<1, 0>>,
                 utc |-> <<2014, 1, 1, 0, 0, 0>>]
    /\ normOut = Raise
    /\ normOp = "idle"

Init == NormIdle /\ PipeInit

Next ==
    \/ LoadScan
    \/ LoadUnzip
    \/ LoadRescan
    \/ LoadRead
    \/ WeatherScan
    \/ WeatherUnzip
    \/ WeatherRescan
    \/ WeatherRead
    \/ Join
    \/ WriteConnectFail
    \/ WriteCreate
    \/ WriteInsert
    \/ WriteInsertFail
    \/ NextRun

Spec == Init /\ [][Next]_vars

----------------------------------------------------------------------------
(* The normalisers on their own: an argument is drawn, one of them runs    *)

TupleArgs ==
    {[kind |-> "tuple", date |-> <<m, d, y>>, time |-> <<h, mi>>,
      utc |-> <<2014, 1, 1, 0, 0, 0>>] :
        m \in {1, 2, 12, 13}, d \in {1, 2, 28, 29, 30, 31}, y \in {2014, 2016},
        h \in 0..24, mi \in {0, 30}}

UtcArgs ==
    {[kind |-> "utc", date |-> <<1, 1, 2014>>, time |-> <<1, 0>>,
      utc |-> <<y, m, d, h, ms[1], ms[2]>>] :
        y \in {2013, 2014, 2016}, m \in {1, 2, 12}, d \in {1, 28, 29, 31},
        h \in {0, 5, 22, 23, 24},
        ms \in {<<0, 0>>, <<10, 0>>, <<50, 1>>, <<59, 59>>}}

PipeIdle ==
    /\ loadDir = {}
    /\ weatherDir = {}
    /\ db = NoTable
    /\ pc = "start"
    /\ run = 1
    /\ files = <<>>
    /\ loadDf = EmptyFrame
    /\ weatherDf = EmptyFrame
    /\ total = EmptyFrame
    /\ err = NoError
    /\ log = <<>>
    /\ dbAtStart = NoTable
    /\ prev = NoRun

InitNorm ==
    /\ normIn \in TupleArgs \cup UtcArgs
    /\ normOut = Raise
    /\ normOp = "idle"
    /\ PipeIdle

Convert ==
    /\ normOp = "idle"
    /\ normIn.kind = "tuple"
    /\ normOut' = convert_date_time_tuple_into_date_time_object(
                      <<normIn.date, normIn.time>>)
    /\ normOp' = "convert"
    /\ UNCHANGED normIn
    /\ UNCHANGED pipeVars

RoundUp ==
    /\ normOp = "idle"
    /\ normIn.kind = "utc"
    /\ normOut' = round_utc_hour_up(normIn.utc)
    /\ normOp' = "round"
    /\ UNCHANGED normIn
    /\ UNCHANGED pipeVars

NextNorm == Convert \/ RoundUp

SpecNorm == InitNorm /\ [][NextNorm]_vars

----------------------------------------------------------------------------
(* Properties of the timestamp normalisers (checked under SpecNorm)        *)

ValidUtc(u) == ValidDate(u[1], u[2], u[3]) /\ ValidTime(u[4], u[5], u[6])

NextDay(y, m, d) ==
    IF d < DaysInMonth(y, m) THEN <<y, m, d + 1>>
    ELSE IF m < 12 THEN <<y, m + 1, 1>>
    ELSE <<y + 1, 1, 1>>

StartOfNextHour(u) ==
    IF u[4] = 23 THEN NextDay(u[1], u[2], u[3]) \o <<0, 0, 0>>
    ELSE <<u[1], u[2], u[3], u[4] + 1, 0, 0>>

\* C1: round_utc_hour_up returns the start of the hour after the one that
\* contains its argument; from hour 23 that is 00:00:00 of the next calendar
\* day, with month and year rollover.
C1_RoundUpRollsOver ==
    (normOp = "round" /\ ValidUtc(normIn.utc))
        => normOut = Return(StartOfNextHour(normIn.utc))

ConvertedValidDate ==
    /\ normOp = "convert"
    /\ ValidDate(normIn.date[3], normIn.date[1], normIn.date[2])

\* C2 as stated: on one date the label '24:00' normalises to the same
\* timestamp as the label '23:00'; for 01/02/2014 that is 2014-01-02 22:00:00.
C2_SameAs2300 ==
    (ConvertedValidDate /\ normIn.time = <<24, 0>>)
        => /\ normOut = convert_date_time_tuple_into_date_time_object(
                            <<normIn.date, <<23, 0>>>>)
           /\ normIn.date = <<1, 2, 2014>>
                => normOut = Return(<<2014, 1, 2, 22, 0, 0>>)

\* C2 amended: on one date the label '24:00' normalises to 23:00:00 of that
\* date, one hour after what the label '23:00' normalises to (22:00:00); for
\* 01/02/2014 these are 2014-01-02 23:00:00 and 2014-01-02 22:00:00.
C2_LastHourOfDay ==
    (ConvertedValidDate /\ normIn.time = <<24, 0>>)
        => /\ normOut = Return(<<normIn.date[3], normIn.date[1], normIn.date[2],
                                 23, 0, 0>>)
           /\ convert_date_time_tuple_into_date_time_object(
                  <<normIn.date, <<23, 0>>>>)
                = Return(<<normIn.date[3], normIn.date[1], normIn.date[2],
                           22, 0, 0>>)

C2_Witness ==
    /\ normOp = "convert"
    /\ normIn.date = <<1, 2, 2014>>
    /\ normIn.time = <<24, 0>>
    /\ normOut = Return(<<2014, 1, 2, 23, 0, 0>>)

\* C3: for a valid date and a label H:00 with H in 01..23 the result is the
\* same calendar date at hour H-1, minute and second 0.
C3_HourEndingMinusOne ==
    (ConvertedValidDate /\ normIn.time[1] \in 1..23 /\ normIn.time[2] = 0)
        => normOut = Return(<<normIn.date[3], normIn.date[1], normIn.date[2],
                              normIn.time[1] - 1, 0, 0>>)

C3_Witness ==
    /\ normOp = "convert"
    /\ normIn.date = <<2, 29, 2016>>
    /\ normIn.time = <<23, 0>>
    /\ normOut = Return(<<2016, 2, 29, 22, 0, 0>>)

----------------------------------------------------------------------------
(* Properties of the pipeline (checked under Spec)                         *)

Min(a, b) == IF a <= b THEN a ELSE b

Joined == pc \in {"write", "insert", "done"}

\* C4: the aggregated load table and the aggregated weather table each hold
\* at most one row per canonical timestamp.
C4_OneRowPerTimestamp ==
    /\ Cardinality(Dates(loadDf)) = Len(loadDf.rows)
    /\ Cardinality(Dates(weatherDf)) = Len(weatherDf.rows)

\* C5: the joined table never has more rows than min(number of distinct load
\* timestamps, number of distinct weather timestamps).
C5_JoinDoesNotMultiply ==
    Joined => Len(total.rows) <= Min(Cardinality(Dates(loadDf)),
                                     Cardinality(Dates(weatherDf)))

\* C6: the timestamps of the joined table are exactly those present in both
\* the load table and the weather table, and every joined row carries the
\* load columns and the weather columns, with the values of a load row and
\* of a weather row of its timestamp.
C6_JoinIsIntersection ==
    Joined =>
        /\ Dates(total) = Dates(loadDf) \cap Dates(weatherDf)
        /\ total.cols = loadDf.cols \cup weatherDf.cols
        /\ \A k \in DOMAIN total.rows :
              /\ DOMAIN total.rows[k] = loadDf.cols \cup weatherDf.cols
              /\ \E i \in DOMAIN loadDf.rows :
                    \A c \in loadDf.cols : total.rows[k][c] = loadDf.rows[i][c]
              /\ \E j \in DOMAIN weatherDf.rows :
                    \A c \in weatherDf.cols : total.rows[k][c] = weatherDf.rows[j][c]

C6_Witness ==
    /\ pc = "done"
    /\ Dates(total) # {}
    /\ Dates(loadDf) \ Dates(weatherDf) # {}
    /\ Dates(weatherDf) \ Dates(loadDf) # {}

TableOf(df) ==
    Table(df.cols \cup {"index"},
          [k \in 1..Len(df.rows) |-> ("index" :> (k - 1)) @@ df.rows[k]])

\* C7: a run that fails anywhere leaves the destination as it found it, and
\* a run that succeeds leaves the complete joined table.
C7_AllOrNothing ==
    /\ pc = "failed" => db = dbAtStart
    /\ pc = "done" => db = TableOf(total)

Dirs == {LoadDirName, WeatherDirName}

Scans(d) == {i \in DOMAIN log : log[i].ev = "scan" /\ log[i].dir = d}
Unzips(d) == {i \in DOMAIN log : log[i].ev = "unzip" /\ log[i].dir = d}

FollowedBy(i, e) == i < Len(log) => log[i + 1] = e
FollowedByRead(i, d) ==
    i < Len(log) => (log[i + 1].ev = "read" /\ log[i + 1].dir = d
                     /\ log[i + 1].n = log[i].n)

CsvIn(d) ==
    IF d = LoadDirName THEN {e \in loadDir : e.ext = "csv"}
    ELSE {e \in weatherDir : e.ext = "csv"}

\* C8: per family, archive expansion is attempted only after a first scan
\* that found no csv file, at most once, and is followed by one re-scan; a
\* scan that finds files is followed by reading them; an empty re-scan is
\* followed by a ValueError whose message names the directory, which is the
\* last thing the run does: nothing is read, joined or written after it.
C8_FallbackOrder ==
    /\ \A d \in Dirs :
          /\ Cardinality(Unzips(d)) <= 1
          /\ Cardinality(Scans(d)) <= 1 + Cardinality(Unzips(d))
          /\ \A i \in Unzips(d) :
                /\ i > 1
                /\ log[i - 1] = Event("scan", d, 0)
                /\ i < Len(log) => (log[i + 1].ev = "scan" /\ log[i + 1].dir = d)
          /\ \A i \in Scans(d) :
                IF \E j \in Scans(d) : j < i
                THEN /\ log[i - 1] = Event("unzip", d, 0)
                     /\ IF log[i].n = 0
                        THEN /\ i < Len(log)
                             /\ log[i + 1] = Event("raise", d, 0)
                        ELSE FollowedByRead(i, d)
                ELSE IF log[i].n = 0
                     THEN FollowedBy(i, Event("unzip", d, 0))
                     ELSE FollowedByRead(i, d)
    /\ \A i \in DOMAIN log : log[i].ev = "raise" => (i = Len(log) /\ pc = "failed")
    /\ (pc = "failed" /\ err.what = "missing") =>
          /\ err.type = "ValueError"
          /\ err.dir \in Dirs
          /\ CsvIn(err.dir) = {}
          /\ Len(log) >= 4
          /\ SubSeq(log, Len(log) - 3, Len(log)) =
                <<Event("scan", err.dir, 0), Event("unzip", err.dir, 0),
                  Event("scan", err.dir, 0), Event("raise", err.dir, 0)>>
          /\ db = dbAtStart
          /\ total = EmptyFrame

C8_Witness ==
    /\ pc = "failed"
    /\ err = ValueError("missing", WeatherDirName)
    /\ Cardinality(Unzips(LoadDirName)) = 1
    /\ loadDf.rows # <<>>

\* C9: after a successful run the 'results' table holds exactly the rows of
\* the joined table of that run, whatever the destination held before; and
\* a successful run that follows a successful run over the same files leaves
\* the table as that run left it.
C9_Idempotent ==
    pc = "done" =>
        /\ db.exists
        /\ db.cols = total.cols \cup {"index"}
        /\ Len(db.rows) = Len(total.rows)
        /\ \A k \in DOMAIN db.rows :
              /\ db.rows[k]["index"] = k - 1
              /\ \A c \in total.cols : db.rows[k][c] = total.rows[k][c]
        /\ prev.status = "done" => db = prev.db

C9_Witness ==
    /\ pc = "done"
    /\ run = 2
    /\ prev.status = "done"
    /\ Len(db.rows) > 1

KnownStations == {"KDAL", "KHOU", "KSAT"}

Unknown(dir) ==
    {e \in dir : e.ext = "csv" /\ \A code \in KnownStations : ~Contains(e, code)}

\* compute_aggregate_weather_data run on a directory, start to end
WeatherOutcome(dir) ==
    LET first == get_all_csv_files_in_directory(dir, WeatherOrder)
        after == IF NeedsFallback(first) THEN unzip(dir) ELSE dir
        found == get_all_csv_files_in_directory(after, WeatherOrder)
    IN  IF Len(found) = 0 THEN Raise ELSE AggregateWeather(found)

\* C10: csv files that name no known station make no difference to
\* compute_aggregate_weather_data: it succeeds or fails, and returns the
\* table, exactly as it would on the directory without them.
C10_UnknownFilesIgnored ==
    ((pc = "join" \/ (pc = "failed" /\ err.what = "concat")) /\ Unzips(WeatherDirName) = {})
        => LET without == WeatherOutcome(weatherDir \ Unknown(weatherDir))
           IN  /\ without.ok = (pc = "join")
               /\ without.ok => without.val = weatherDf
====
